---------------------------- MODULE Spec2Model ----------------------------
(***************************************************************************)
(* Model of src/app.py: the memoized CSV loader/cleaner load_data and the  *)
(* render function main of the import/export statistics dashboard.         *)
(*                                                                         *)
(* Column names are written in ASCII:                                      *)
(*   "rank" = '순위', "rank_num" = '순위_숫자', "country" = '수입국',          *)
(*   "import" = '수입액(천$)', "export" = '수출액(천$)',                       *)
(*   "balance" = '무역수지(천$)', "imp2024" = '2024 - 수입금액(천$)',          *)
(*   "exp2024" = '2024 - 수출금액(천$)', and so on for 2023 and 2022.         *)
(*                                                                         *)
(* A cell of the file is [na, text]: na is pandas' NaN (a missing cell),   *)
(* text is the cell's characters, one per element.                         *)
(***************************************************************************)
EXTENDS Integers, Sequences, FiniteSets, TLC

VARIABLES disk, cache, built, first, pc, messages, df, slider_default,
          rank_range, filtered_df, kpi, fig_bar, fig_scatter, trend

vars == <<disk, cache, built, first, pc, messages, df, slider_default,
          rank_range, filtered_df, kpi, fig_bar, fig_scatter, trend>>

(***************************** bounds **************************************)
\* longest enumerated cell text of a numeric column
MaxCellLen == 3
\* most data rows of an enumerated file
MaxRows == 2

(***************************** constants ***********************************)
FILE_PATH == "trade.csv"

numeric_cols == <<"import", "export", "balance",
                  "imp2024", "exp2024", "imp2023", "exp2023",
                  "imp2022", "exp2022">>

NumericColSet == {numeric_cols[i] : i \in 1..Len(numeric_cols)}

\* the cap of the slider's default upper bound
DefaultUpper == 20

(***************************** cells and text ******************************)
NaN == [na |-> TRUE, text |-> <<>>]

Text(s) == [na |-> FALSE, text |-> s]

Digit == {"0", "1", "2", "3", "4", "5", "6", "7", "8", "9"}

DigitVal == ("0" :> 0) @@ ("1" :> 1) @@ ("2" :> 2) @@ ("3" :> 3) @@ ("4" :> 4)
            @@ ("5" :> 5) @@ ("6" :> 6) @@ ("7" :> 7) @@ ("8" :> 8) @@ ("9" :> 9)

RECURSIVE DigitsValue(_)
DigitsValue(s) ==
    IF s = <<>> THEN 0
    ELSE DigitsValue(SubSeq(s, 1, Len(s) - 1)) * 10 + DigitVal[s[Len(s)]]

AllDigits(s) == \A i \in 1..Len(s) : s[i] \in Digit

\* read_csv's default na_values, as far as the modelled alphabet can spell them
NaTokens == {<<>>, <<"N", "/", "A">>, <<"n", "a", "n">>}

\* pd.read_csv: a cell spelling an NA token is read as NaN, other text is kept
ReadCell(s) == IF s \in NaTokens THEN NaN ELSE Text(s)

(***************************** numbers *************************************)
\* a float: kind "nan", "inf" or "num"; a "num" is (-1)^neg * (int + 0.frac)
NumNaN == [kind |-> "nan", neg |-> FALSE, int |-> 0, frac |-> <<>>]

NumInf(n) == [kind |-> "inf", neg |-> n, int |-> 0, frac |-> <<>>]

Num(n, i, f) == [kind |-> "num", neg |-> n, int |-> i, frac |-> f]

DotPos(s) == {i \in 1..Len(s) : s[i] = "."}

\* the unsigned part of a numeric literal: digits, at most one decimal point
ParseUnsigned(neg, s) ==
    IF s = <<"i", "n", "f">> THEN NumInf(neg)
    ELSE IF DotPos(s) = {} THEN
        IF Len(s) > 0 /\ AllDigits(s) THEN Num(neg, DigitsValue(s), <<>>) ELSE NumNaN
    ELSE IF Cardinality(DotPos(s)) > 1 THEN NumNaN
    ELSE LET d  == CHOOSE i \in DotPos(s) : TRUE
             ip == SubSeq(s, 1, d - 1)
             fp == SubSeq(s, d + 1, Len(s))
         IN  IF Len(ip) + Len(fp) > 0 /\ AllDigits(ip) /\ AllDigits(fp)
             THEN Num(neg, DigitsValue(ip), fp)
             ELSE NumNaN

\* pd.to_numeric(..., errors='coerce') on one value of an object column
ToNumeric(c) ==
    IF c.na THEN NumNaN
    ELSE IF Len(c.text) > 0 /\ c.text[1] = "-"
         THEN ParseUnsigned(TRUE, SubSeq(c.text, 2, Len(c.text)))
         ELSE ParseUnsigned(FALSE, c.text)

Zero == Num(FALSE, 0, <<>>)

\* the value of a float without fraction digits (the texts of the numeric
\* columns carry no decimal point, so every cleaned number is integral)
IntOf(x) == IF x.neg THEN 0 - x.int ELSE x.int

(***************************** load_data ***********************************)
\* df.columns.str.strip(): a header entry is [name, pad], pad telling that the
\* name is written with surrounding whitespace
StripColumns(header) == [i \in 1..Len(header) |-> header[i].name]

Positions(cols, name) == {i \in 1..Len(cols) : cols[i] = name}

HasCol(cols, name) == Positions(cols, name) # {}

\* df[name] is a DataFrame, not a Series, when the name labels several columns
IsFrame(cols, name) == Cardinality(Positions(cols, name)) > 1

\* pd.read_csv(file_path, header=1, ...): the value of one row under one column
Series(cols, row, name) == ReadCell(row[CHOOSE i \in Positions(cols, name) : TRUE])

\* .astype(str)
AsTypeStr(c) == IF c.na THEN <<"n", "a", "n">> ELSE c.text

\* the cleaning without the removal of the thousands separators
StrReplaceCommaKept(s) == s

\* .str.replace(',', '')
StrReplaceComma(s) == SelectSeq(s, LAMBDA ch : ch # ",")

\* .str.replace('-', '0'): every hyphen of the text
StrReplaceHyphen(s) == [i \in 1..Len(s) |-> IF s[i] = "-" THEN "0" ELSE s[i]]

\* Series.replace('nan', '0'): a whole-value match
ReplaceNan(s) == IF s = <<"n", "a", "n">> THEN <<"0">> ELSE s

\* the cleaning without the final fill of NaN
FillNa0Missing(x) == x

\* .fillna(0)
FillNa0(x) == IF x.kind = "nan" THEN Zero ELSE x

\* lines 71-72 on one cell of a numeric column
CleanCell(c) ==
    FillNa0(ToNumeric(Text(
        ReplaceNan(StrReplaceHyphen(StrReplaceComma(AsTypeStr(c)))))))

\* line 57: pd.to_numeric(df['rank'], errors='coerce')
RankNum(cols, row) == ToNumeric(Series(cols, row, "rank"))

\* line 58: df.dropna(subset=['rank_num'])
DropNaRank(cols, rows) == SelectSeq(rows, LAMBDA row : RankNum(cols, row).kind # "nan")

\* line 59: .astype(int) truncates toward zero (and raises on a non-finite value)
AsTypeInt(x) == IF x.neg THEN 0 - x.int ELSE x.int

\* lines 69-74: one numeric column of one row
NumericValue(cols, row, col) ==
    IF HasCol(cols, col) THEN CleanCell(Series(cols, row, col)) ELSE Zero

CleanRow(cols, row) ==
    [c \in {cols[i] : i \in 1..Len(cols)} \cup {"rank_num"} \cup NumericColSet |->
        IF c = "rank" THEN AsTypeInt(RankNum(cols, row))
        ELSE IF c = "rank_num" THEN RankNum(cols, row)
        ELSE IF c \in NumericColSet THEN NumericValue(cols, row, c)
        ELSE Series(cols, row, c)]

\* the exceptions lines 57-74 raise, caught at line 78
CleaningRaises(cols, rows) ==
    \/ IsFrame(cols, "rank")
    \/ \E i \in 1..Len(rows) : RankNum(cols, rows[i]).kind = "inf"
    \/ \E c \in NumericColSet : IsFrame(cols, c)

CleanTable(cols, rows) ==
    LET kept == DropNaRank(cols, rows)
    IN  [i \in 1..Len(kept) |-> CleanRow(cols, kept[i])]

\* pd.DataFrame()
EmptyFrame == <<>>

Result(d, m) == [df |-> d, msgs |-> m]

\* the body of load_data, lines 26-80
load_data_body(f) ==
    IF ~f.exists THEN Result(EmptyFrame, {"file_not_found"})
    ELSE IF f.cp949 = "unicode_error" /\ f.utf8 = "error"
         THEN Result(EmptyFrame, {"encoding_error"})
    ELSE IF f.cp949 = "error" THEN Result(EmptyFrame, {"load_error"})
    ELSE LET cols == StripColumns(f.header)
         IN  IF ~HasCol(cols, "rank") THEN Result(EmptyFrame, {"no_rank_column"})
             ELSE IF CleaningRaises(cols, f.rows)
                  THEN Result(EmptyFrame, {"cleaning_error"})
             ELSE Result(CleanTable(cols, f.rows), {})

\* main without the return on an empty table
IsEmptyNever(d) == FALSE

\* df.empty
IsEmpty(d) == Len(d) = 0

(***************************** the files on disk ***************************)
H(n) == [name |-> n, pad |-> FALSE]

Padded(n) == [name |-> n, pad |-> TRUE]

File(ex, c, u, h, r) == [exists |-> ex, cp949 |-> c, utf8 |-> u, header |-> h, rows |-> r]

SeqsUpTo(S, n) == UNION {[1..k -> S] : k \in 0..n}

CellAlphabet == {"1", "2", ",", "-", "x"}

CellTexts == SeqsUpTo(CellAlphabet, MaxCellLen)

\* one data row, one of the nine numeric columns, every text of the alphabet
CellFiles ==
    {File(TRUE, "ok", "ok", <<H("rank"), H("country"), H(col)>>, <<<<<<"1">>, <<"A">>, s>>>>) :
        col \in NumericColSet, s \in CellTexts}

RankCells == {<<"1">>, <<"2", ".", "5">>, <<"N", "/", "A">>, <<"x">>, <<"i", "n", "f">>}

LoadHeaders ==
    { <<Padded("rank"), H("country"), H("import"), Padded("export")>>,
      <<H("country"), H("import"), H("export")>>,
      <<H("rank"), Padded("rank"), H("country"), H("import")>>,
      <<H("rank"), H("country"), H("import"), Padded("import")>> }

LoadRow(r) == <<r, <<"A">>, <<"1", ",", "2">>, <<"-">>>>

LoadFiles ==
    {File(TRUE, c, "ok", h, [i \in 1..Len(rs) |-> LoadRow(rs[i])]) :
        c \in {"ok", "unicode_error"}, h \in LoadHeaders, rs \in SeqsUpTo(RankCells, MaxRows)}
    \cup {File(ex, c, "error", <<>>, <<>>) :
            ex \in BOOLEAN, c \in {"unicode_error", "error"}}

ViewHeader == <<H("rank"), H("country"), H("import"), H("export"), H("balance"),
                H("imp2022"), H("exp2022"), H("imp2023"), H("exp2023"),
                H("imp2024"), H("exp2024")>>

\* a rank, a country (or none), the rank again as import value, no export value,
\* a negative balance and the six year values
ViewRows ==
    {<<r, c, r, <<"-">>, <<"-", "4">>, <<"1">>, <<"2">>, <<"3">>, <<"4">>, <<"5">>, <<"6">>>> :
        r \in {<<"1">>, <<"2">>, <<"2", "2">>}, c \in {<<"A">>, <<>>}}

ViewFiles == {File(TRUE, "ok", "ok", ViewHeader, rs) : rs \in SeqsUpTo(ViewRows, MaxRows)}

\* import "1,234" and export "-", and a negative balance
ExampleFile ==
    File(TRUE, "ok", "ok", <<H("rank"), H("country"), H("import"), H("export"), H("balance")>>,
         << <<<<"1">>, <<"A">>, <<"1", ",", "2", "3", "4">>, <<"-">>, <<"-", "5", "0", "0">>>> >>)

Files == CellFiles \cup LoadFiles \cup ViewFiles \cup {ExampleFile}

(***************************** state ***************************************)
NoEntry == [full |-> FALSE, df |-> EmptyFrame, msgs |-> {}]

Entry(r) == [full |-> TRUE, df |-> r.df, msgs |-> r.msgs]

NoKpi == [total_import |-> 0, total_export |-> 0,
          avg_balance |-> [nan |-> FALSE, num |-> 0, den |-> 1]]

NoBar == [sort_by |-> "", data |-> <<>>]

NoScatter == [data |-> <<>>, log_x |-> FALSE, log_y |-> FALSE]

NoTrend == [shown |-> "none", country_list |-> <<>>, selected_country |-> NaN,
            import_vals |-> <<>>, export_vals |-> <<>>]

Init ==
    /\ disk \in Files
    /\ cache = [p \in {FILE_PATH} |-> NoEntry]
    /\ built = 0
    /\ first = NoEntry
    /\ pc = "start"
    /\ messages = {}
    /\ df = EmptyFrame
    /\ slider_default = <<>>
    /\ rank_range = <<>>
    /\ filtered_df = <<>>
    /\ kpi = NoKpi
    /\ fig_bar = NoBar
    /\ fig_scatter = NoScatter
    /\ trend = NoTrend

(***************************** load_data, memoized *************************)
\* load_data without memoization
CacheHitNever(path) == FALSE

\* @st.cache_data: an entry for the arguments exists
CacheHit(path) == cache[path].full

\* line 91 (and 93-94): df = load_data(FILE_PATH) under @st.cache_data. A hit
\* returns a copy of the stored table and replays the stored messages; a miss
\* runs the body and stores its result, also an empty one.
LoadData ==
    /\ pc = "start"
    /\ LET hit == CacheHit(FILE_PATH)
           r   == IF hit THEN Result(cache[FILE_PATH].df, cache[FILE_PATH].msgs)
                  ELSE load_data_body(disk)
       IN  /\ cache' = IF hit THEN cache ELSE [cache EXCEPT ![FILE_PATH] = Entry(r)]
           /\ built' = IF hit THEN built ELSE built + 1
           /\ first' = IF first.full THEN first ELSE Entry(r)
           /\ df' = r.df
           /\ messages' = r.msgs
           /\ pc' = IF IsEmpty(r.df) THEN "stopped" ELSE "slider"
    /\ UNCHANGED <<disk, slider_default, rank_range, filtered_df, kpi, fig_bar,
                   fig_scatter, trend>>

(***************************** main: the rank slider ***********************)
Ranks(d) == {d[i]["rank"] : i \in 1..Len(d)}

SetMin(S) == CHOOSE x \in S : \A y \in S : x <= y

SetMax(S) == CHOOSE x \in S : \A y \in S : x >= y

Min2(a, b) == IF a <= b THEN a ELSE b

\* line 97
min_rank(d) == SetMin(Ranks(d))

\* lines 97-98
max_rank(d) == IF SetMax(Ranks(d)) < min_rank(d) THEN min_rank(d) ELSE SetMax(Ranks(d))

\* line 104: the default value handed to the slider
DefaultRange(d) == <<min_rank(d), Min2(max_rank(d), DefaultUpper)>>

\* the ranges a user can set: bounds at or next to an existing rank
UserRanges(d) ==
    LET pts == {r + k : r \in Ranks(d), k \in {-1, 0, 1}} \cap (min_rank(d)..max_rank(d))
    IN  {x \in pts \X pts : x[1] <= x[2]}

\* lines 100-105: the slider returns its default or the user's range. A default
\* whose lower bound exceeds its upper bound is rejected by the widget
\* (an exception) or normalised by swapping, depending on the library version.
Slider ==
    /\ pc = "slider"
    /\ slider_default' = DefaultRange(df)
    /\ LET dflt == DefaultRange(df)
       IN  IF dflt[1] <= dflt[2]
           THEN /\ rank_range' \in {dflt} \cup UserRanges(df)
                /\ pc' = "filter"
           ELSE \/ /\ rank_range' = <<>>
                   /\ pc' = "raised"
                \/ /\ rank_range' \in {<<dflt[2], dflt[1]>>} \cup UserRanges(df)
                   /\ pc' = "filter"
    /\ UNCHANGED <<disk, cache, built, first, messages, df, filtered_df, kpi,
                   fig_bar, fig_scatter, trend>>

(***************************** main: filter and KPIs ***********************)
\* the filter with an exclusive upper bound
FilterRowsExclusive(d, lo, hi) ==
    SelectSeq(d, LAMBDA row : row["rank"] >= lo /\ row["rank"] < hi)

\* line 107: the rows whose rank lies in [lo, hi], in table order
FilterRows(d, lo, hi) == SelectSeq(d, LAMBDA row : row["rank"] >= lo /\ row["rank"] <= hi)

Filter ==
    /\ pc = "filter"
    /\ filtered_df' = FilterRows(df, rank_range[1], rank_range[2])
    /\ pc' = "kpi"
    /\ UNCHANGED <<disk, cache, built, first, messages, df, slider_default,
                   rank_range, kpi, fig_bar, fig_scatter, trend>>

\* the values of a column that are not NaN (sum and mean skip NaN)
Values(d, col) ==
    LET nn == SelectSeq(d, LAMBDA row : row[col].kind # "nan")
    IN  [i \in 1..Len(nn) |-> IntOf(nn[i][col])]

RECURSIVE SeqSum(_)
SeqSum(v) == IF v = <<>> THEN 0 ELSE v[1] + SeqSum(Tail(v))

\* Series.sum(): 0 over no values
ColumnSum(d, col) == SeqSum(Values(d, col))

\* Series.mean(): the sum over the count (num/den), NaN over no values
ColumnMean(d, col) ==
    IF Len(Values(d, col)) = 0 THEN [nan |-> TRUE, num |-> 0, den |-> 0]
    ELSE [nan |-> FALSE, num |-> ColumnSum(d, col), den |-> Len(Values(d, col))]

\* lines 114-120
KPI ==
    /\ pc = "kpi"
    /\ kpi' = [total_import |-> ColumnSum(filtered_df, "import"),
               total_export |-> ColumnSum(filtered_df, "export"),
               avg_balance  |-> ColumnMean(filtered_df, "balance")]
    /\ pc' = "tab1"
    /\ UNCHANGED <<disk, cache, built, first, messages, df, slider_default,
                   rank_range, filtered_df, fig_bar, fig_scatter, trend>>

(***************************** main: the three tabs ************************)
SortColumns == {"import", "export", "balance"}

\* DataFrame.sort_values(col, ascending=False): the orders of the rows that
\* descend in col (the order of ties is the sort algorithm's)
SortedDescending(d, col) ==
    LET perms == {p \in [1..Len(d) -> 1..Len(d)] : \A i, j \in 1..Len(d) : p[i] = p[j] => i = j}
        desc  == {p \in perms : \A i, j \in 1..Len(d) : i < j => IntOf(d[p[i]][col]) >= IntOf(d[p[j]][col])}
    IN  {[i \in 1..Len(d) |-> d[p[i]]] : p \in desc}

\* lines 127-138: the bar chart of the sorted copy
Tab1 ==
    /\ pc = "tab1"
    /\ \E col \in SortColumns :
        \E sorted \in SortedDescending(filtered_df, col) :
            fig_bar' = [sort_by |-> col, data |-> sorted]
    /\ pc' = "tab2"
    /\ UNCHANGED <<disk, cache, built, first, messages, df, slider_default,
                   rank_range, filtered_df, kpi, fig_scatter, trend>>

\* lines 140-151: the scatter is given filtered_df itself, both axes logarithmic
ScatterData(d) == d

Tab2 ==
    /\ pc = "tab2"
    /\ fig_scatter' = [data |-> ScatterData(filtered_df), log_x |-> TRUE, log_y |-> TRUE]
    /\ pc' = "tab3"
    /\ UNCHANGED <<disk, cache, built, first, messages, df, slider_default,
                   rank_range, filtered_df, kpi, fig_bar, trend>>

RECURSIVE Unique(_)
\* Series.unique(): the values in order of first appearance, NaN at most once
Unique(vals) ==
    IF vals = <<>> THEN <<>>
    ELSE LET front == Unique(SubSeq(vals, 1, Len(vals) - 1))
             last  == vals[Len(vals)]
         IN  IF \E i \in 1..Len(front) : front[i] = last THEN front
             ELSE Append(front, last)

\* line 155
country_list(d) == Unique([i \in 1..Len(d) |-> d[i]["country"]])

\* df['country'] == selected_country, elementwise: NaN equals nothing
CountryEq(a, b) == ~a.na /\ ~b.na /\ a.text = b.text

\* line 160, before .iloc[0]: the rows of the full table with that country
Lookup(d, sel) == SelectSeq(d, LAMBDA row : CountryEq(row["country"], sel))

\* lines 153-175. .iloc[0] on an empty selection raises IndexError at line 160,
\* which is outside the try of lines 163-173.
Tab3 ==
    /\ pc = "tab3"
    /\ LET cl == country_list(filtered_df)
       IN  IF Len(cl) > 0
           THEN \E k \in 1..Len(cl) :
                  LET found == Lookup(df, cl[k])
                  IN  IF Len(found) = 0
                      THEN /\ trend' = [NoTrend EXCEPT !.shown = "raised",
                                                      !.country_list = cl,
                                                      !.selected_country = cl[k]]
                           /\ pc' = "raised"
                      ELSE /\ trend' = [shown |-> "chart",
                                        country_list |-> cl,
                                        selected_country |-> cl[k],
                                        import_vals |-> <<found[1]["imp2022"],
                                                          found[1]["imp2023"],
                                                          found[1]["imp2024"]>>,
                                        export_vals |-> <<found[1]["exp2022"],
                                                          found[1]["exp2023"],
                                                          found[1]["exp2024"]>>]
                           /\ pc' = "done"
           ELSE /\ trend' = [NoTrend EXCEPT !.shown = "placeholder"]
                /\ pc' = "done"
    /\ UNCHANGED <<disk, cache, built, first, messages, df, slider_default,
                   rank_range, filtered_df, kpi, fig_bar, fig_scatter>>

(***************************** reruns and the environment ******************)
\* a user interaction reruns main from the top (line 181); the cache persists
Rerun ==
    /\ pc \in {"done", "stopped", "raised"}
    /\ pc' = "start"
    /\ messages' = {}
    /\ df' = EmptyFrame
    /\ slider_default' = <<>>
    /\ rank_range' = <<>>
    /\ filtered_df' = <<>>
    /\ kpi' = NoKpi
    /\ fig_bar' = NoBar
    /\ fig_scatter' = NoScatter
    /\ trend' = NoTrend
    /\ UNCHANGED <<disk, cache, built, first>>

\* between two runs the file is deleted from the disk
FileRemoved ==
    /\ pc = "start"
    /\ disk.exists
    /\ disk' = [disk EXCEPT !.exists = FALSE]
    /\ UNCHANGED <<cache, built, first, pc, messages, df, slider_default,
                   rank_range, filtered_df, kpi, fig_bar, fig_scatter, trend>>

Next ==
    \/ LoadData
    \/ Slider
    \/ Filter
    \/ KPI
    \/ Tab1
    \/ Tab2
    \/ Tab3
    \/ Rerun
    \/ FileRemoved

Spec == Init /\ [][Next]_vars

(***************************** what the source file says *******************)
\* main holds the table its load returned
Loaded == pc # "start"

\* the filtered sub-table of this run has been computed
Filtered == pc \in {"kpi", "tab1", "tab2", "tab3", "done"} \/ trend.shown = "raised"

SrcPos(name) == {i \in 1..Len(disk.header) : disk.header[i].name = name}

OnlyDigits(t) == SelectSeq(t, LAMBDA ch : ch \in Digit)

Unsigned(t) == IF Len(t) > 0 /\ t[1] = "-" THEN Tail(t) ELSE t

\* the text spells a decimal number: digits, at most one point, an optional sign
IsNumberText(t) ==
    /\ Len(OnlyDigits(Unsigned(t))) > 0
    /\ \A i \in 1..Len(Unsigned(t)) : Unsigned(t)[i] \in Digit \cup {"."}
    /\ Cardinality({i \in 1..Len(t) : t[i] = "."}) <= 1

\* the integer a number text truncates to
IntegerPart(t) ==
    LET u == Unsigned(t)
        w == IF \E i \in 1..Len(u) : u[i] = "."
             THEN SubSeq(u, 1, (CHOOSE i \in 1..Len(u) : u[i] = ".") - 1)
             ELSE u
    IN  IF Len(t) > 0 /\ t[1] = "-" THEN 0 - DigitsValue(w) ELSE DigitsValue(w)

RankText(row) == row[CHOOSE i \in SrcPos("rank") : TRUE]

\* the data rows of the file whose rank spells a number, in file order
SrcKept == SelectSeq(disk.rows, LAMBDA row : IsNumberText(RankText(row)))

\* digits and thousands separators only, at least one digit
DigitsAndSeparators(t) ==
    /\ Len(OnlyDigits(t)) > 0
    /\ \A i \in 1..Len(t) : t[i] \in Digit \cup {","}

Count(sq, r) == Cardinality({i \in 1..Len(sq) : sq[i] = r})

(***************************** claims **************************************)
\* C1: the filtered sub-table holds exactly the records of the table whose rank r
\* satisfies a <= r <= b for the selected range [a,b]: each such record as often as
\* the table holds it, no other record, none altered.
RankFilterInclusive ==
    Filtered =>
        /\ \A i \in 1..Len(df) :
              Count(filtered_df, df[i]) =
                  IF rank_range[1] <= df[i]["rank"] /\ df[i]["rank"] <= rank_range[2]
                  THEN Count(df, df[i]) ELSE 0
        /\ \A j \in 1..Len(filtered_df) : \E i \in 1..Len(df) : df[i] = filtered_df[j]

\* a record of rank a is kept while a record of rank a-1 is left out
RankFilterWitness ==
    /\ Filtered
    /\ \E i, j \in 1..Len(df) :
          /\ df[i]["rank"] = rank_range[1]
          /\ df[i]["rank"] = rank_range[2]
          /\ df[j]["rank"] = rank_range[1] - 1
          /\ Count(filtered_df, df[i]) = 1
          /\ Count(filtered_df, df[j]) = 0

\* C2: in each numeric column present in the source, a cell of digits and
\* thousands separators is cleaned to the number its digits spell, a cell holding
\* only "-" to 0, and a missing cell to 0.
SeparatedNumbersCleaned ==
    (Loaded /\ Len(df) > 0) =>
        /\ Len(df) = Len(SrcKept)
        /\ \A i \in 1..Len(df) : \A col \in NumericColSet : \A p \in SrcPos(col) :
              LET t == SrcKept[i][p]
              IN  /\ DigitsAndSeparators(t) =>
                        df[i][col] = Num(FALSE, DigitsValue(OnlyDigits(t)), <<>>)
                  /\ t = <<"-">> => df[i][col] = Zero
                  /\ t = <<>> => df[i][col] = Zero

\* import "1,234" has become 1234 and export "-" has become 0
SeparatedNumbersWitness ==
    /\ Loaded
    /\ disk.rows = ExampleFile.rows
    /\ Len(df) = 1
    /\ df[1]["import"] = Num(FALSE, 1234, <<>>)
    /\ df[1]["export"] = Zero

\* C3: a cell of a numeric column holding a negative number (a leading minus sign,
\* then digits and thousands separators) is cleaned to that negative number.
NegativeNumbersKept ==
    (Loaded /\ Len(df) > 0) =>
        \A i \in 1..Len(df) : \A col \in NumericColSet : \A p \in SrcPos(col) :
            LET t == SrcKept[i][p]
            IN  (Len(t) > 1 /\ t[1] = "-" /\ DigitsAndSeparators(Tail(t))) =>
                    df[i][col] = Num(TRUE, DigitsValue(OnlyDigits(t)), <<>>)

\* C4: every record of a non-empty loaded table comes from a source row whose rank
\* spells a number and carries that rank as an integer; rows with another rank are
\* left out without any error message; each of the nine numeric fields is present
\* and is a number, never NaN, and is zero when the source lacks the column.
RecordsWellFormed ==
    (Loaded /\ Len(df) > 0) =>
        /\ messages = {}
        /\ Len(df) = Len(SrcKept)
        /\ \A i \in 1..Len(df) :
              /\ df[i]["rank"] \in Int
              /\ df[i]["rank"] = IntegerPart(RankText(SrcKept[i]))
              /\ \A col \in NumericColSet :
                    /\ col \in DOMAIN df[i]
                    /\ df[i][col].kind # "nan"
                    /\ SrcPos(col) = {} => df[i][col] = Zero

\* a row with a non-numeric rank was dropped, a row was kept, a column synthesized
RecordsWellFormedWitness ==
    /\ Loaded
    /\ Len(df) > 0
    /\ Len(df) < Len(disk.rows)
    /\ SrcPos("balance") = {}
    /\ \E i \in 1..Len(disk.rows) : RankText(disk.rows[i]) = <<"N", "/", "A">>

\* C5: once computed, the KPIs are defined numbers: over an empty sub-table both
\* sums are 0, and the mean trade balance is never NaN.
KpisDefined ==
    pc \in {"tab1", "tab2", "tab3", "done"} =>
        /\ Len(filtered_df) = 0 => (kpi.total_import = 0 /\ kpi.total_export = 0)
        /\ ~kpi.avg_balance.nan

\* the load of this file fails: no file, no encoding decodes it or it cannot be
\* read, no rank column after trimming the headers, or cleaning raises (the rank or
\* a numeric column is labelled twice, or a rank is infinite)
LoadFails(f) ==
    \/ ~f.exists
    \/ f.cp949 = "unicode_error" /\ f.utf8 = "error"
    \/ f.cp949 = "error"
    \/ Cardinality({i \in 1..Len(f.header) : f.header[i].name = "rank"}) # 1
    \/ \E c \in NumericColSet :
          Cardinality({i \in 1..Len(f.header) : f.header[i].name = c}) > 1
    \/ \E i \in 1..Len(f.rows) : Unsigned(RankText(f.rows[i])) = <<"i", "n", "f">>

\* C6: a load attempt that fails runs the body once, shows an error message and
\* returns an empty table; a later load of the path does not try again and shows
\* the same messages; either way main stops with no slider, KPI or chart built.
FailedLoadTerminal ==
    [][ /\ (pc = "start" /\ pc' # "start" /\ ~cache[FILE_PATH].full /\ LoadFails(disk)) =>
              /\ messages' # {}
              /\ Len(df') = 0
              /\ built' = built + 1
              /\ pc' = "stopped"
        /\ (pc = "start" /\ pc' # "start" /\ cache[FILE_PATH].full
                /\ cache[FILE_PATH].msgs # {}) =>
              /\ messages' = cache[FILE_PATH].msgs
              /\ Len(df') = 0
              /\ built' = built
              /\ pc' = "stopped"
        /\ pc = "stopped" =>
              /\ pc' \in {"stopped", "start"}
              /\ slider_default = <<>> /\ rank_range = <<>> /\ kpi = NoKpi
              /\ fig_bar = NoBar /\ fig_scatter = NoScatter /\ trend = NoTrend
      ]_vars

\* a failed load is served again from the cache on a later run
FailedLoadWitness ==
    /\ pc = "stopped"
    /\ "cleaning_error" \in messages
    /\ built = 1
    /\ ~disk.exists

\* C7: the trend view never raises; over an empty sub-table it shows the
\* placeholder, and otherwise the selected country is one of the sub-table's.
TrendNeverRaises ==
    /\ trend.shown # "raised"
    /\ pc = "done" =>
          /\ Len(filtered_df) = 0 => trend.shown = "placeholder"
          /\ Len(filtered_df) > 0 =>
                /\ trend.shown = "chart"
                /\ \E i \in 1..Len(filtered_df) :
                      filtered_df[i]["country"] = trend.selected_country

\* C8: no record whose import or export value is zero is handed to the scatter
\* with logarithmic axes.
LogAxesGuarded ==
    (fig_scatter.log_x \/ fig_scatter.log_y) =>
        \A i \in 1..Len(fig_scatter.data) :
            /\ fig_scatter.data[i]["import"] # Zero
            /\ fig_scatter.data[i]["export"] # Zero

\* C9: the body of load_data runs at most once for the path, every load returns
\* the table the first load returned, and no step of main changes that table.
LoadedOnceAndUnchanged ==
    /\ built <= 1
    /\ first.full => (cache[FILE_PATH].full /\ cache[FILE_PATH].df = first.df)
    /\ Loaded => (first.full /\ df = first.df)

\* a whole render, with sorting and lookup, was served after the file was deleted
LoadedOnceWitness ==
    /\ pc = "done"
    /\ ~disk.exists
    /\ Len(df) > 1
    /\ trend.shown = "chart"
    /\ fig_bar.data # filtered_df

\* C10: the default range handed to the slider satisfies
\* min_rank <= lower <= upper <= max_rank.
DefaultRangeValid ==
    slider_default # <<>> =>
        /\ min_rank(df) <= slider_default[1]
        /\ slider_default[1] <= slider_default[2]
        /\ slider_default[2] <= max_rank(df)

=============================================================================
